---------------------------- MODULE Spec2Model ----------------------------
(***************************************************************************)
(* Scalar lattice layout of QDP++ (namespace QDP::Layout): the geometry    *)
(* record _layout, the layout-creation routine with its parallel sanity    *)
(* sweep, and the four coordinate/index codecs selected at build time      *)
(* (lexicographic, 2-checkerboard, 3D time-fastest checkerboard,           *)
(* 32-style checkerboard).  Beside it, the memory-based map object         *)
(* MapObjectMemory<K,V>, a hash map keyed by the serialised key.           *)
(*                                                                         *)
(* C++ arrays are 0-based, TLA+ sequences 1-based: coord[m] of the source  *)
(* is coord[m+1] here.  All integers that occur are non-negative and far   *)
(* below 2^31, so int arithmetic is exact, >> k is division by 2^k and     *)
(* & 1 is the remainder mod 2.                                             *)
(***************************************************************************)
EXTENDS Integers, Sequences, FiniteSets

\* ------------------------------------------------------------------ bounds

\* Dimensionality of the lattice (a build parameter; 4 in production builds).
Nd == 3

\* Largest extent a lattice-size vector may hold in the explored inputs.
MaxExt == 8

\* Largest volume of the lattices the codec specification draws.
MaxVol == 64

\* Largest volume of the lattice sizes handed to setLattSize in the
\* life-cycle specification (the sweep is explored index by index).
MaxSweepVol == 8

\* Largest volume of the lattices whose sweep is explored under fairness.
MaxFairVol == 4

\* Keys 0 .. MaxKey and values 0 .. MaxVal are handed to the memory map.
MaxKey == 2
MaxVal == 1

VARIABLES
  layout,         \* which codec the build selected (the #if chain)
  divTrap,        \* whether the build traps on an integer division by zero
  initialized,    \* QDP_isInitialized()
  vol,            \* _layout.vol
  nrow,           \* _layout.nrow
  subgrid_vol,    \* _layout.subgrid_vol
  logical_coord,  \* _layout.logical_coord
  logical_size,   \* _layout.logical_size
  iogrid,         \* _layout.iogrid
  pc,             \* where the process is: idle, sweep, ready, fatal, sigfpe
  done,           \* indices the sanity sweep has checked so far
  defaults,       \* number of times initDefaults() has run
  q,              \* the last operation: [op, arg, res]
  src_map         \* MapObjectMemory::src_map: serialised key -> value

vars == <<layout, divTrap, initialized, vol, nrow, subgrid_vol, logical_coord,
          logical_size, iogrid, pc, done, defaults, q, src_map>>

geometry == <<vol, nrow, subgrid_vol, logical_coord, logical_size, iogrid>>

Layouts == {"LEXICO", "CB2", "CB3D", "CB32"}

\* ------------------------------------------------------- integer helpers

RECURSIVE Pow2(_)
Pow2(k) == IF k <= 0 THEN 1 ELSE 2 * Pow2(k - 1)

\* a >> k and a << k on non-negative ints
Shr(a, k) == a \div Pow2(k)
Shl(a, k) == a * Pow2(k)

\* bitwise and / exclusive or on non-negative ints
RECURSIVE And(_, _)
And(a, b) ==
  IF a = 0 \/ b = 0 THEN 0
  ELSE ((a % 2) * (b % 2)) + 2 * And(a \div 2, b \div 2)

RECURSIVE Xor(_, _)
Xor(a, b) ==
  IF a = 0 THEN b
  ELSE IF b = 0 THEN a
  ELSE (((a % 2) + (b % 2)) % 2) + 2 * Xor(a \div 2, b \div 2)

\* a / b and a % b of the source.  A zero divisor is undefined behaviour: a
\* build either traps (see DivByZero and divTrap) or, as on targets whose
\* divide instruction does not trap, yields quotient 0 and remainder a.
CDiv(a, b) == IF b = 0 THEN 0 ELSE a \div b
CMod(a, b) == IF b = 0 THEN a ELSE a % b

RECURSIVE Product(_)
Product(s) == IF s = <<>> THEN 1 ELSE Head(s) * Product(Tail(s))

\* s[from] + ... + s[to] (1-based, empty when from > to)
RECURSIVE SumFrom(_, _, _)
SumFrom(s, from, to) ==
  IF from > to THEN 0 ELSE s[from] + SumFrom(s, from + 1, to)

\* ------------------------------------------ qdp_util: crtesn, local_site

\* crtesn(ipos, latt_size): coord[i] = ipos % latt_size[i]; ipos /= latt_size[i]
RECURSIVE crtesnFrom(_, _, _)
crtesnFrom(ipos, latt_size, i) ==
  IF i > Len(latt_size) THEN <<>>
  ELSE <<CMod(ipos, latt_size[i])>>
         \o crtesnFrom(CDiv(ipos, latt_size[i]), latt_size, i + 1)

crtesn(ipos, latt_size) == crtesnFrom(ipos, latt_size, 1)

\* local_site(coord, latt_size): the mixed-radix value of coord, dimension 0
\* fastest, by Horner's rule: order = latt_size[mmu-1]*(coord[mmu] + order) for
\* mmu = n-1 .. 1, then order += coord[0].
RECURSIVE local_order(_, _, _)
local_order(coord, latt_size, mmu) ==
  IF mmu > Len(latt_size) THEN 0
  ELSE latt_size[mmu - 1]
         * (coord[mmu] + local_order(coord, latt_size, mmu + 1))

local_site(coord, latt_size) == local_order(coord, latt_size, 2) + coord[1]

\* ------------------------------------------------------------- accessors

lattSize == nrow
sitesOnNode == subgrid_vol
nodeNumber == 0
numNodes == 1
numIONodeGrid == 1
getIONodeGrid == iogrid

\* ------------------------------------------------ lexicographic layout

siteCoordsLexico(node, linearsite) == crtesn(linearsite, lattSize)

\* A faulty variant: the last dimension runs fastest
linearSiteIndexLexico_LastFastest(coord) ==
  LET n   == Len(coord)
      rev(t) == [k \in 1..n |-> t[n + 1 - k]]
  IN  local_site(rev(coord), rev(lattSize))

linearSiteIndexLexico(coord) == local_site(coord, lattSize)

\* ------------------------------------------------ 2-checkerboard layout

\* A faulty variant: the parity loop starts at m = 0 instead of m = 1
siteCoordsCB2_ParityFromZero(node, linearsite) ==
  LET vol_cb  == Shr(vol, 1)
      cb_nrow == [lattSize EXCEPT ![1] = Shr(@, 1)]
      cb      == CDiv(linearsite, vol_cb)
      coord   == crtesn(CMod(linearsite, vol_cb), cb_nrow)
      cbb     == And(cb + SumFrom(coord, 1, Len(coord)), 1)
  IN  [coord EXCEPT ![1] = 2 * @ + cbb]

siteCoordsCB2(node, linearsite) ==
  LET vol_cb  == Shr(vol, 1)
      cb_nrow == [lattSize EXCEPT ![1] = Shr(@, 1)]
      cb      == CDiv(linearsite, vol_cb)
      coord   == crtesn(CMod(linearsite, vol_cb), cb_nrow)
      cbb     == And(cb + SumFrom(coord, 2, Len(coord)), 1)
  IN  [coord EXCEPT ![1] = 2 * @ + cbb]

\* A faulty variant: the colour block is not offset by cb*vol_cb but by cb
linearSiteIndexCB2_BadOffset(coord) ==
  LET cb_nrow  == [lattSize EXCEPT ![1] = Shr(@, 1)]
      cb_coord == [coord EXCEPT ![1] = Shr(@, 1)]
      cb       == And(SumFrom(coord, 1, Len(coord)), 1)
  IN  local_site(cb_coord, cb_nrow) + cb

linearSiteIndexCB2(coord) ==
  LET vol_cb   == Shr(vol, 1)
      cb_nrow  == [lattSize EXCEPT ![1] = Shr(@, 1)]
      cb_coord == [coord EXCEPT ![1] = Shr(@, 1)]
      cb       == And(SumFrom(coord, 1, Len(coord)), 1)
  IN  local_site(cb_coord, cb_nrow) + cb * vol_cb

\* ------------------------------- 3D checkerboard layout, time fastest

siteCoordsCB3D(node, linearsite) ==
  LET vol_cb  == vol \div 2
      cb_nrow == [lattSize EXCEPT ![1] = @ \div 2]
      cb      == CDiv(linearsite, vol_cb)
      coord   == crtesn(CMod(linearsite, vol_cb), cb_nrow)
      cbb     == And(cb + SumFrom(coord, 2, Len(coord) - 1), 1)
  IN  [coord EXCEPT ![1] = 2 * @ + cbb]

\* A faulty variant: the colour is taken over all Nd components, as in the 2-checkerboard
linearSiteIndexCB3D_FullParity(coord) ==
  LET vol_cb   == vol \div 2
      cb_nrow  == [lattSize EXCEPT ![1] = @ \div 2]
      cb_coord == [coord EXCEPT ![1] = @ \div 2]
      cb       == And(SumFrom(coord, 1, Len(coord)), 1)
  IN  local_site(cb_coord, cb_nrow) + cb * vol_cb

linearSiteIndexCB3D(coord) ==
  LET vol_cb   == vol \div 2
      cb_nrow  == [lattSize EXCEPT ![1] = @ \div 2]
      cb_coord == [coord EXCEPT ![1] = @ \div 2]
      cb       == And(SumFrom(coord, 1, Len(coord) - 1), 1)
  IN  local_site(cb_coord, cb_nrow) + cb * vol_cb

\* ---------------------------------------------- 32-style checkerboard

\* cb_nrow[0] = lattSize()[0] >> 2; cb_nrow[i] = lattSize()[i] >> 1
cb_nrow32 == [i \in 1..Nd |-> IF i = 1 THEN Shr(lattSize[1], 2)
                                       ELSE Shr(lattSize[i], 1)]

\* A faulty variant: the line subl ^= (cb << Nd) is left out
siteCoordsCB32_NoParityFold(node, linearsite) ==
  LET vol_cb  == Shr(vol, Nd + 1)
      subl    == CDiv(linearsite, vol_cb)
      coord0  == crtesn(CMod(linearsite, vol_cb), cb_nrow32)
      coord1  == [m \in 1..Nd |-> IF m = 1 THEN Shl(coord0[1], 2)
                                           ELSE Shl(coord0[m], 1)]
      coord2  == [m \in 1..Nd |->
                    Xor(coord1[m], Shr(And(subl, Shl(1, m - 1)), m - 1))]
  IN  [coord2 EXCEPT ![1] = Xor(@, Shr(And(subl, Shl(1, Nd)), Nd - 1))]

siteCoordsCB32(node, linearsite) ==
  LET vol_cb  == Shr(vol, Nd + 1)
      subl0   == CDiv(linearsite, vol_cb)
      coord0  == crtesn(CMod(linearsite, vol_cb), cb_nrow32)
      cb      == And(SumFrom(coord0, 2, Nd), 1)
      coord1  == [m \in 1..Nd |-> IF m = 1 THEN Shl(coord0[1], 2)
                                           ELSE Shl(coord0[m], 1)]
      subl    == Xor(subl0, Shl(cb, Nd))
      \* coord[m] ^= (subl & (1 << m)) >> m, source m = 0 .. Nd-1
      coord2  == [m \in 1..Nd |->
                    Xor(coord1[m], Shr(And(subl, Shl(1, m - 1)), m - 1))]
  IN  [coord2 EXCEPT ![1] = Xor(@, Shr(And(subl, Shl(1, Nd)), Nd - 1))]

\* subl = coord[Nd-1] & 1; for m = Nd-2 .. 0: subl = (subl << 1) + (coord[m] & 1)
RECURSIVE sublBits(_, _)
sublBits(coord, m) ==
  IF m = Nd THEN And(coord[Nd], 1)
  ELSE Shl(sublBits(coord, m + 1), 1) + And(coord[m], 1)

\* cb = sum over m of coord[m] >> 1
RECURSIVE sumHalves(_, _)
sumHalves(coord, m) ==
  IF m > Nd THEN 0 ELSE Shr(coord[m], 1) + sumHalves(coord, m + 1)

\* A faulty variant: the checkerboard bit sums coord[m] instead of coord[m] >> 1
linearSiteIndexCB32_RawParity(coord) ==
  LET vol_cb   == Shr(vol, Nd + 1)
      cb       == SumFrom(coord, 1, Nd)
      subl     == sublBits(coord, 1) + Shl(And(cb, 1), Nd)
      cb_coord == [m \in 1..Nd |-> IF m = 1 THEN Shr(coord[1], 2)
                                            ELSE Shr(coord[m], 1)]
  IN  local_site(cb_coord, cb_nrow32) + subl * vol_cb

linearSiteIndexCB32(coord) ==
  LET vol_cb   == Shr(vol, Nd + 1)
      cb       == sumHalves(coord, 1)
      subl     == sublBits(coord, 1) + Shl(And(cb, 1), Nd)
      cb_coord == [m \in 1..Nd |-> IF m = 1 THEN Shr(coord[1], 2)
                                            ELSE Shr(coord[m], 1)]
  IN  local_site(cb_coord, cb_nrow32) + subl * vol_cb

\* ------------------------------------------ the codec the build selected

siteCoords(node, linearsite) ==
  CASE layout = "LEXICO" -> siteCoordsLexico(node, linearsite)
    [] layout = "CB2"    -> siteCoordsCB2(node, linearsite)
    [] layout = "CB3D"   -> siteCoordsCB3D(node, linearsite)
    [] layout = "CB32"   -> siteCoordsCB32(node, linearsite)

linearSiteIndex(coord) ==
  CASE layout = "LEXICO" -> linearSiteIndexLexico(coord)
    [] layout = "CB2"    -> linearSiteIndexCB2(coord)
    [] layout = "CB3D"   -> linearSiteIndexCB3D(coord)
    [] layout = "CB32"   -> linearSiteIndexCB32(coord)

\* Whether siteCoords divides by zero with the current geometry: the divisor
\* vol_cb of linearsite / vol_cb and linearsite % vol_cb, or an extent of the
\* grid handed to crtesn.  linearSiteIndex never divides.
HasZero(s) == \E k \in 1..Len(s) : s[k] = 0

DivByZero ==
  CASE layout = "LEXICO" -> HasZero(lattSize)
    [] layout = "CB2"    -> Shr(vol, 1) = 0
                            \/ HasZero([lattSize EXCEPT ![1] = Shr(@, 1)])
    [] layout = "CB3D"   -> vol \div 2 = 0
                            \/ HasZero([lattSize EXCEPT ![1] = @ \div 2])
    [] layout = "CB32"   -> Shr(vol, Nd + 1) = 0 \/ HasZero(cb_nrow32)


\* ------------------------------------------------------------ input sets

Exts == 1..MaxExt

\* The lattice-size vectors of length n with extents in Exts and volume <= cap
RECURSIVE SizesOfLen(_, _)
SizesOfLen(n, cap) ==
  IF n = 0 THEN {<<>>}
  ELSE UNION {{<<e>> \o s : s \in SizesOfLen(n - 1, cap \div e)} :
                e \in {x \in Exts : x <= cap}}

\* The valid coordinates of a lattice: 0 <= c[k] < latt_size[k]
RECURSIVE CoordsOf(_)
CoordsOf(latt_size) ==
  IF latt_size = <<>> THEN {<<>>}
  ELSE {<<x>> \o t : x \in 0..(Head(latt_size) - 1),
                     t \in CoordsOf(Tail(latt_size))}

CodecSizes == SizesOfLen(Nd, MaxVol)

\* Sizes handed to setLattSize: of the right length, and a few of a wrong one
SweepSizes ==
  SizesOfLen(Nd, MaxSweepVol) \cup SizesOfLen(Nd - 1, 2) \cup SizesOfLen(Nd + 1, 2)

Zeros == [i \in 1..Nd |-> 0]
Ones  == [i \in 1..Nd |-> 1]

\* Grids requested of setIONodeGrid: empty, too short, all ones, and of length
\* Nd with more than one I/O node in every direction
IOGrids == {<<>>, <<2, 1>>, Ones, [i \in 1..Nd |-> 2]}

NoOp == [op |-> "none", arg |-> <<>>, res |-> <<>>]

\* A default-constructed MapObjectMemory: src_map holds no entry
EmptyMap == [b \in {} |-> 0]

Keys   == 0..MaxKey
Values == 0..MaxVal

\* ------------------------------------------------------ the life cycle

\* After static initialisation: _layout is a namespace-scope object, so its
\* ints are zero and its arrays empty; the library is not initialised.
Init ==
  /\ layout \in Layouts
  /\ divTrap \in BOOLEAN
  /\ initialized = FALSE
  /\ vol = 0
  /\ nrow = <<>>
  /\ subgrid_vol = 0
  /\ logical_coord = <<>>
  /\ logical_size = <<>>
  /\ iogrid = <<>>
  /\ pc = "idle"
  /\ done = {}
  /\ defaults = FALSE
  /\ q = NoOp
  /\ src_map = EmptyMap

\* The caller's thread is between two calls of the library
Callable == pc \in {"idle", "ready"}

\* QDP_initialize(): afterwards QDP_isInitialized() is true
QDP_initialize ==
  /\ Callable
  /\ ~initialized
  /\ initialized' = TRUE
  /\ q' = [op |-> "QDP_initialize", arg |-> <<>>, res |-> "void"]
  /\ UNCHANGED <<src_map, layout, divTrap, geometry, pc, done, defaults>>

setLattSize(nrows) ==
  /\ Callable
  /\ nrow' = nrows
  /\ q' = [op |-> "setLattSize", arg |-> <<>>, res |-> "void"]
  /\ UNCHANGED <<src_map, layout, divTrap, initialized, vol, subgrid_vol, logical_coord,
                 logical_size, iogrid, pc, done, defaults>>

\* setSMPFlag(flag), setNumProc(N) and init() have empty bodies
setSMPFlag(flag) ==
  /\ Callable
  /\ q' = [op |-> "setSMPFlag", arg |-> <<>>, res |-> "void"]
  /\ UNCHANGED <<src_map, layout, divTrap, initialized, geometry, pc, done, defaults>>

setNumProc(N) ==
  /\ Callable
  /\ q' = [op |-> "setNumProc", arg |-> <<>>, res |-> "void"]
  /\ UNCHANGED <<src_map, layout, divTrap, initialized, geometry, pc, done, defaults>>

init ==
  /\ Callable
  /\ q' = [op |-> "init", arg |-> <<>>, res |-> "void"]
  /\ UNCHANGED <<src_map, layout, divTrap, initialized, geometry, pc, done, defaults>>

\* iogrid.resize(Nd); iogrid[i] = 1
IONodeGridDefaults == Ones

setIONodeGridDefaults ==
  /\ Callable
  /\ iogrid' = IONodeGridDefaults
  /\ q' = [op |-> "setIONodeGridDefaults", arg |-> <<>>, res |-> "void"]
  /\ UNCHANGED <<src_map, layout, divTrap, initialized, vol, nrow, subgrid_vol,
                 logical_coord, logical_size, pc, done, defaults>>

\* A faulty variant: the requested grid is stored
setIONodeGrid_StoresArg(io_grid) ==
  /\ Callable
  /\ iogrid' = io_grid
  /\ q' = [op |-> "setIONodeGrid", arg |-> io_grid, res |-> "void"]
  /\ UNCHANGED <<src_map, layout, divTrap, initialized, vol, nrow, subgrid_vol,
                 logical_coord, logical_size, pc, done, defaults>>

\* setIONodeGrid(io_grid) calls setIONodeGridDefaults() and never reads io_grid
setIONodeGrid(io_grid) ==
  /\ Callable
  /\ iogrid' = IONodeGridDefaults
  /\ q' = [op |-> "setIONodeGrid", arg |-> io_grid, res |-> "void"]
  /\ UNCHANGED <<src_map, layout, divTrap, initialized, vol, nrow, subgrid_vol,
                 logical_coord, logical_size, pc, done, defaults>>

\* A faulty variant: the check of QDP_isInitialized() is left out
ConfigOK_NoInitCheck == Len(nrow) = Nd

\* create() says whether it gets past its two configuration checks
ConfigOK == initialized /\ Len(nrow) = Nd

\* A faulty variant: subgrid_vol is assigned before the volume is multiplied up
create_StaleSubgrid ==
  /\ Callable
  /\ IF ~ConfigOK
       THEN /\ pc' = "fatal"
            /\ q' = [op |-> "create", arg |-> <<>>, res |-> "config"]
            /\ UNCHANGED <<geometry, done>>
       ELSE /\ vol' = Product(nrow)
            /\ subgrid_vol' = 1
            /\ logical_coord' = Zeros
            /\ logical_size' = Ones
            /\ pc' = "sweep"
            /\ done' = {}
            /\ q' = [op |-> "create", arg |-> <<>>, res |-> "sweep"]
            /\ UNCHANGED <<nrow, iogrid>>
  /\ UNCHANGED <<src_map, layout, divTrap, initialized, defaults>>

\* create(), up to the parallel loop: the two checks, then the geometry
create ==
  /\ Callable
  /\ IF ~ConfigOK
       THEN /\ pc' = "fatal"
            /\ q' = [op |-> "create", arg |-> <<>>, res |-> "config"]
            /\ UNCHANGED <<geometry, done>>
       ELSE /\ vol' = Product(nrow)
            /\ subgrid_vol' = Product(nrow)
            /\ logical_coord' = Zeros
            /\ logical_size' = Ones
            /\ pc' = "sweep"
            /\ done' = {}
            /\ q' = [op |-> "create", arg |-> <<>>, res |-> "sweep"]
            /\ UNCHANGED <<nrow, iogrid>>
  /\ UNCHANGED <<src_map, layout, divTrap, initialized, defaults>>

\* The body of the loop for index i
SweepOK(i) == i = linearSiteIndex(siteCoords(nodeNumber, i))

\* A faulty variant: a mismatch is not reported and the iteration returns normally
SweepStep_NoExit(i) ==
  /\ pc = "sweep"
  /\ i \in (0..(vol - 1)) \ done
  /\ IF DivByZero /\ divTrap
       THEN /\ pc' = "sigfpe"
            /\ q' = [op |-> "create", arg |-> <<>>, res |-> "SIGFPE"]
            /\ UNCHANGED done
       ELSE /\ done' = done \cup {i}
            /\ UNCHANGED <<pc, q>>
  /\ UNCHANGED <<src_map, layout, divTrap, initialized, geometry, defaults>>

\* One iteration of the parallel sanity loop, run by some worker thread.  The
\* iterations read the geometry and write nothing shared, so which thread runs
\* which index is not part of the state: every partition of [0, vol) over the
\* threads and every interleaving is an order in which the indices are taken.
\* QDP_error_exit ends the process; so does a trapping division.
SweepStep(i) ==
  /\ pc = "sweep"
  /\ i \in (0..(vol - 1)) \ done
  /\ IF DivByZero /\ divTrap
       THEN /\ pc' = "sigfpe"
            /\ q' = [op |-> "create", arg |-> <<>>, res |-> "SIGFPE"]
            /\ UNCHANGED done
       ELSE IF ~SweepOK(i)
       THEN /\ pc' = "fatal"
            /\ q' = [op |-> "create", arg |-> <<>>, res |-> "layout"]
            /\ UNCHANGED done
       ELSE /\ done' = done \cup {i}
            /\ UNCHANGED <<pc, q>>
  /\ UNCHANGED <<src_map, layout, divTrap, initialized, geometry, defaults>>

Sweep == \E i \in 0..(MaxSweepVol - 1) : SweepStep(i)

\* The end of the parallel region (every iteration has returned), then the
\* allocator's init, initDefaults() (which ends with setIONodeGridDefaults)
\* and "Finished lattice layout".
createFinish ==
  /\ pc = "sweep"
  /\ done = 0..(vol - 1)
  /\ defaults' = TRUE
  /\ iogrid' = IONodeGridDefaults
  /\ pc' = "ready"
  /\ q' = [op |-> "create", arg |-> <<>>, res |-> "ready"]
  /\ UNCHANGED <<src_map, layout, divTrap, initialized, vol, nrow, subgrid_vol,
                 logical_coord, logical_size, done>>

Next ==
  \/ QDP_initialize
  \/ \E nrows \in SweepSizes : setLattSize(nrows)
  \/ \E flag \in BOOLEAN : setSMPFlag(flag)
  \/ \E N \in 1..2 : setNumProc(N)
  \/ init
  \/ setIONodeGridDefaults
  \/ \E io_grid \in IOGrids : setIONodeGrid(io_grid)
  \/ create
  \/ Sweep
  \/ createFinish

Spec == Init /\ [][Next]_vars

\* ------------------------------------------------- the sweep on its own

\* create() at the head of its parallel loop, for every lattice size of
\* length Nd: the geometry is computed, no index is checked yet
InitSweep ==
  /\ layout \in Layouts
  /\ divTrap \in BOOLEAN
  /\ initialized = TRUE
  /\ nrow \in SizesOfLen(Nd, MaxFairVol)
  /\ vol = Product(nrow)
  /\ subgrid_vol = Product(nrow)
  /\ logical_coord = Zeros
  /\ logical_size = Ones
  /\ iogrid = <<>>
  /\ pc = "sweep"
  /\ done = {}
  /\ defaults = FALSE
  /\ q = [op |-> "create", arg |-> <<>>, res |-> "sweep"]
  /\ src_map = EmptyMap

NextSweep == Sweep \/ createFinish

\* The worker threads keep running, and the thread that left the loop goes on
FairSweep ==
  InitSweep /\ [][NextSweep]_vars /\ WF_vars(Sweep) /\ WF_vars(createFinish)

\* --------------------------------------------- the codecs as functions

\* A geometry as create() leaves it, for every lattice size of length Nd
InitCodec ==
  /\ layout \in Layouts
  /\ divTrap \in BOOLEAN
  /\ initialized = TRUE
  /\ nrow \in CodecSizes
  /\ vol = Product(nrow)
  /\ subgrid_vol = Product(nrow)
  /\ logical_coord = Zeros
  /\ logical_size = Ones
  /\ iogrid = Ones
  /\ pc = "codec"
  /\ done = {}
  /\ defaults = FALSE
  /\ q = NoOp
  /\ src_map = EmptyMap

\* The codecs are pure: a call reads the geometry and changes nothing, so a
\* second call would see what the first saw.  Each behaviour makes one call.
CallSiteCoords(node, linearsite) ==
  /\ pc = "codec"
  /\ q = NoOp
  /\ linearsite \in 0..(vol - 1)
  /\ IF DivByZero /\ divTrap
       THEN /\ pc' = "sigfpe"
            /\ q' = [op |-> "siteCoords", arg |-> <<node, linearsite>>,
                     res |-> "SIGFPE"]
       ELSE /\ pc' = pc
            /\ q' = [op |-> "siteCoords", arg |-> <<node, linearsite>>,
                     res |-> siteCoords(node, linearsite)]
  /\ UNCHANGED <<src_map, layout, divTrap, initialized, geometry, done, defaults>>

CallLinearSiteIndex(coord) ==
  /\ pc = "codec"
  /\ q = NoOp
  /\ q' = [op |-> "linearSiteIndex", arg |-> coord,
           res |-> linearSiteIndex(coord)]
  /\ UNCHANGED <<src_map, layout, divTrap, initialized, geometry, pc, done, defaults>>

NextCodec ==
  \/ \E node \in 0..1, linearsite \in 0..(MaxVol - 1) :
       CallSiteCoords(node, linearsite)
  \/ \E coord \in CoordsOf(nrow) : CallLinearSiteIndex(coord)

SpecCodec == InitCodec /\ [][NextCodec]_vars


\* ------------------------------------------------ the memory map object

\* BinaryBufferWriter bin; write(bin, key); bin.str() for an int key: its four
\* bytes, most significant first
bin_key(key) ==
  <<(key \div 16777216) % 256, (key \div 65536) % 256, (key \div 256) % 256,
    key % 256>>

\* src_map.find(bin_key) != src_map.end()
found(m, key) == bin_key(key) \in DOMAIN m

\* What get(key, val) returns and leaves in val on the map m
getResult(m, key, val) ==
  IF ~found(m, key) THEN <<1, val>> ELSE <<0, m[bin_key(key)]>>

existResult(m, key) == IF ~found(m, key) THEN FALSE ELSE TRUE

\* src_map.size() through unsigned long to the unsigned int that is returned:
\* the low 32 bits of the count, put together from its two 16-bit halves
sizeResult(m) ==
  LET n == Cardinality(DOMAIN m)
  IN  (n % 65536) + 65536 * ((n \div 65536) % 65536)

\* A faulty variant: the pair is handed to the hash map's insert, which keeps
\* the entry of a key that is present
insert_KeepsOld(key, val) ==
  /\ src_map' = [b \in DOMAIN src_map \cup {bin_key(key)} |->
                   IF b \in DOMAIN src_map THEN src_map[b] ELSE val]
  /\ q' = [op |-> "insert", arg |-> <<key, val>>, res |-> <<0>>]
  /\ UNCHANGED <<layout, divTrap, initialized, geometry, pc, done, defaults>>

\* insert(key, val): overwrite the entry of a key that is present, else add one
insert(key, val) ==
  /\ src_map' = IF found(src_map, key)
                  THEN [src_map EXCEPT ![bin_key(key)] = val]
                  ELSE [b \in DOMAIN src_map \cup {bin_key(key)} |->
                          IF b = bin_key(key) THEN val ELSE src_map[b]]
  /\ q' = [op |-> "insert", arg |-> <<key, val>>, res |-> <<0>>]
  /\ UNCHANGED <<layout, divTrap, initialized, geometry, pc, done, defaults>>

\* get(key, val) with the caller's variable holding val before the call
get(key, val) ==
  /\ q' = [op |-> "get", arg |-> <<key, val>>,
           res |-> getResult(src_map, key, val)]
  /\ UNCHANGED <<src_map, layout, divTrap, initialized, geometry, pc, done,
                 defaults>>

erase(key) ==
  /\ src_map' = IF found(src_map, key)
                  THEN [b \in DOMAIN src_map \ {bin_key(key)} |-> src_map[b]]
                  ELSE src_map
  /\ q' = [op |-> "erase", arg |-> <<key>>, res |-> <<>>]
  /\ UNCHANGED <<layout, divTrap, initialized, geometry, pc, done, defaults>>

clear ==
  /\ src_map' = EmptyMap
  /\ q' = [op |-> "clear", arg |-> <<>>, res |-> <<>>]
  /\ UNCHANGED <<layout, divTrap, initialized, geometry, pc, done, defaults>>

exist(key) ==
  /\ q' = [op |-> "exist", arg |-> <<key>>,
           res |-> <<existResult(src_map, key)>>]
  /\ UNCHANGED <<src_map, layout, divTrap, initialized, geometry, pc, done,
                 defaults>>

size ==
  /\ q' = [op |-> "size", arg |-> <<>>, res |-> <<sizeResult(src_map)>>]
  /\ UNCHANGED <<src_map, layout, divTrap, initialized, geometry, pc, done,
                 defaults>>

\* A default-constructed map in a process that has not touched the layout.
\* The map object reads nothing of the layout, so one build is explored.
InitMap ==
  /\ layout = "LEXICO"
  /\ divTrap = FALSE
  /\ initialized = FALSE
  /\ vol = 0
  /\ nrow = <<>>
  /\ subgrid_vol = 0
  /\ logical_coord = <<>>
  /\ logical_size = <<>>
  /\ iogrid = <<>>
  /\ pc = "idle"
  /\ done = {}
  /\ defaults = FALSE
  /\ q = NoOp
  /\ src_map = EmptyMap

NextMap ==
  \/ \E key \in Keys, val \in Values : insert(key, val)
  \/ \E key \in Keys, val \in Values : get(key, val)
  \/ \E key \in Keys : erase(key)
  \/ clear
  \/ \E key \in Keys : exist(key)
  \/ size

SpecMap == InitMap /\ [][NextMap]_vars


\* ---------------------------------------------------- claims: helpers

\* The mixed-radix value of c against dims, dimension 0 fastest:
\* the sum over k of c[k] * (product of dims[j] for j < k)
MixedRadix(c, dims) ==
  SumFrom([k \in 1..Len(c) |-> c[k] * Product(SubSeq(dims, 1, k - 1))],
          1, Len(c))

IsValidCoord(c) ==
  /\ Len(c) = Len(nrow)
  /\ \A k \in 1..Len(c) : 0 <= c[k] /\ c[k] < nrow[k]

\* The call of the codec specification has returned a value
Returned(op) == pc = "codec" /\ q.op = op

\* A round trip through the selected codec, from either side
RoundTrip ==
  /\ q.op = "siteCoords" =>
       /\ pc = "codec"
       /\ linearSiteIndex(q.res) = q.arg[2]
  /\ q.op = "linearSiteIndex" =>
       /\ pc = "codec"
       /\ \A node \in 0..1 : siteCoords(node, q.res) = q.arg

\* ------------------------------------------------------------------ C1

\* C1: under the 2-checkerboard layout, for every lattice size of length Nd
\* with positive extents and an even extent 0, linearSiteIndex(siteCoords(node,
\* i)) = i for every index i in [0, vol) and every node, and siteCoords(node,
\* linearSiteIndex(c)) = c for every valid coordinate c and every node.
C1_RoundTripCB2 ==
  (layout = "CB2" /\ nrow[1] % 2 = 0) => RoundTrip

\* An index of the second colour block was decoded to a coordinate whose
\* component 0 is odd, on a lattice with an odd extent besides
C1_Witness ==
  /\ layout = "CB2" /\ nrow[1] % 2 = 0 /\ nrow[2] % 2 = 1 /\ nrow[2] > 1
  /\ Returned("siteCoords")
  /\ q.arg[2] >= vol \div 2
  /\ q.res[1] % 2 = 1

\* ------------------------------------------------------------------ C2

\* Bit m (source numbering, m = 0 .. Nd) of a sublattice id
Bit(id, m) == (id \div Pow2(m)) % 2

\* The divisibility the 32-style layout asks of a lattice size
C2_Divisible ==
  /\ nrow[1] % 4 = 0
  /\ \A k \in 2..Nd : nrow[k] % 2 = 0

\* C2: under the 32-style layout, for every lattice size whose extent 0 is
\* divisible by 4 and whose other extents are divisible by 2, both round trips
\* hold; and the decoded coordinate c of index i, with id = i div (vol >>
\* (Nd+1)), has c[m] mod 2 = bit m of id for every m, and bit 1 of c[0] is the
\* parity bit Nd of id corrected by the parity of the other halved components
\* (so that bit Nd of id = (sum of c[m] div 2) mod 2).
C2_RoundTripCB32 ==
  (layout = "CB32" /\ C2_Divisible) =>
    /\ RoundTrip
    /\ q.op = "siteCoords" =>
         LET id == q.arg[2] \div Shr(vol, Nd + 1)
             c  == q.res
         IN  /\ \A m \in 1..Nd : c[m] % 2 = Bit(id, m - 1)
             /\ (c[1] \div 2) % 2
                  = (Bit(id, Nd) + SumFrom([m \in 1..Nd |-> c[m] \div 2], 2, Nd)) % 2
             /\ Bit(id, Nd) = SumFrom([m \in 1..Nd |-> c[m] \div 2], 1, Nd) % 2

\* An index with the parity bit set was decoded on a lattice with more than
\* one site per sublattice
C2_Witness ==
  /\ layout = "CB32" /\ C2_Divisible /\ Shr(vol, Nd + 1) > 1
  /\ Returned("siteCoords")
  /\ Bit(q.arg[2] \div Shr(vol, Nd + 1), Nd) = 1
  /\ (q.res[1] \div 2) % 2 = 1
  /\ q.res[2] > 1

\* ------------------------------------------------------------------ C3

C6_ColourPlacementCB2 ==
  (layout = "CB2" /\ nrow[1] % 2 = 0 /\ q.op = "linearSiteIndex") =>
    LET c == q.arg
        p == SumFrom(c, 1, Len(c)) % 2
    IN  /\ q.res = MixedRadix([c EXCEPT ![1] = @ \div 2],
                              [nrow EXCEPT ![1] = @ \div 2]) + p * (vol \div 2)
        /\ (q.res \in 0..((vol \div 2) - 1)) <=> (p = 0)
        /\ q.res \in 0..(vol - 1)
        /\ \A colour \in 0..1 :
             Cardinality({d \in CoordsOf(nrow) :
                            linearSiteIndex(d) \div (vol \div 2) = colour})
               = vol \div 2

\* An odd-sum coordinate with component 0 at least 2 was encoded into the
\* second colour block
C6_Witness ==
  /\ layout = "CB2" /\ nrow[1] % 2 = 0
  /\ Returned("linearSiteIndex")
  /\ SumFrom(q.arg, 1, Nd) % 2 = 1
  /\ q.arg[1] >= 2 /\ q.arg[2] >= 1
  /\ q.res >= vol \div 2

\* ------------------------------------------------------------------ C7

\* The (Nd+1)-bit sublattice id of a coordinate: bit m is c[m] mod 2 for
\* m < Nd, bit Nd is (sum of c[m] div 2) mod 2
SublatticeId(c) ==
  SumFrom([m \in 1..Nd |-> (c[m] % 2) * Pow2(m - 1)], 1, Nd)
    + (SumFrom([m \in 1..Nd |-> c[m] \div 2], 1, Nd) % 2) * Pow2(Nd)

\* C7: under the 32-style layout, for every lattice with extent 0 divisible by
\* 4 and the others by 2 and every valid coordinate c, linearSiteIndex(c) div
\* (vol / 2^(Nd+1)) is the sublattice id of c, linearSiteIndex(c) mod (vol /
\* 2^(Nd+1)) is the lexicographic index of (c[0] div 4, c[1] div 2, ..) over
\* the shrunk grid, and exactly vol / 2^(Nd+1) coordinates are sent to each of
\* the 2^(Nd+1) ids.
C7_SublatticeIdCB32 ==
  (layout = "CB32" /\ C2_Divisible /\ q.op = "linearSiteIndex") =>
    LET c      == q.arg
        vol_cb == vol \div Pow2(Nd + 1)
        shrunk == [m \in 1..Nd |-> IF m = 1 THEN c[1] \div 4 ELSE c[m] \div 2]
        grid   == [m \in 1..Nd |-> IF m = 1 THEN nrow[1] \div 4
                                            ELSE nrow[m] \div 2]
    IN  /\ q.res \div vol_cb = SublatticeId(c)
        /\ q.res % vol_cb = MixedRadix(shrunk, grid)
        /\ \A id \in 0..(Pow2(Nd + 1) - 1) :
             Cardinality({d \in CoordsOf(nrow) :
                            linearSiteIndex(d) \div vol_cb = id}) = vol_cb

\* A coordinate with the parity bit set, odd component 1 and a non-zero
\* position in its sublattice was encoded
C7_Witness ==
  /\ layout = "CB32" /\ C2_Divisible
  /\ Returned("linearSiteIndex")
  /\ SublatticeId(q.arg) >= Pow2(Nd)
  /\ q.arg[2] % 2 = 1
  /\ q.res % (vol \div Pow2(Nd + 1)) > 0

\* ----------------------------------------------------------------- C10

\* C10: under the lexicographic layout, for every lattice size and valid
\* coordinate c, linearSiteIndex(c) is the mixed-radix value of c against the
\* lattice size (dimension 0 fastest) and siteCoords(node, .) is its inverse;
\* so when c[0] + 1 < dims[0], the coordinate with component 0 incremented has
\* index linearSiteIndex(c) + 1.
C10_Lexicographic ==
  layout = "LEXICO" =>
    /\ RoundTrip
    /\ q.op = "linearSiteIndex" =>
         /\ q.res = MixedRadix(q.arg, nrow)
         /\ q.arg[1] + 1 < nrow[1] =>
              linearSiteIndex([q.arg EXCEPT ![1] = @ + 1]) = q.res + 1
    /\ q.op = "siteCoords" =>
         /\ IsValidCoord(q.res)
         /\ MixedRadix(q.res, nrow) = q.arg[2]

\* dims = [2,3,1..]: the coordinate (1,2,0..) was encoded to 5
C10_Witness ==
  /\ layout = "LEXICO"
  /\ nrow[1] = 2 /\ nrow[2] = 3
  /\ Returned("linearSiteIndex")
  /\ q.arg[1] = 1 /\ q.arg[2] = 2 /\ SumFrom(q.arg, 3, Nd) = 0
  /\ q.res = 5


\* ------------------------------------------------------------------ C4

\* Index i fails the sanity check of the sweep in progress
Failing(i) == ~(DivByZero /\ divTrap) /\ ~SweepOK(i)

SomeFailing == \E i \in 0..(vol - 1) : Failing(i)

\* C4: create() declares the layout ready (allocator, initDefaults, "Finished
\* lattice layout") only after every index i in [0, vol) has been checked and
\* satisfied i = linearSiteIndex(siteCoords(nodeNumber(), i)); with the sweep
\* spread over worker threads in any partition and interleaving, a failing
\* index always drives the process to the fatal-error state, which it never
\* leaves, and the ready state is not reached from that sweep.
C4_ReadyOnlyAfterSweep ==
  /\ [][(pc = "sweep" /\ pc' = "ready") =>
          /\ done = 0..(vol - 1)
          /\ \A i \in 0..(vol - 1) : SweepOK(i)
          /\ defaults']_vars
  /\ [][(pc = "sweep" /\ SomeFailing) => pc' \in {"sweep", "fatal"}]_vars
  /\ [][pc = "fatal" => pc' = "fatal"]_vars
  /\ ((pc = "sweep" /\ SomeFailing) ~> (pc = "fatal"))

\* A sweep with a failing index has checked some other index successfully
C4_Witness ==
  /\ pc = "sweep"
  /\ SomeFailing
  /\ done # {}

\* ------------------------------------------------------------------ C5

\* C5: create() called while the library is not initialised, or with a
\* lattice-size vector whose length differs from Nd, ends in the fatal
\* configuration-error state before anything is computed: vol, subgrid_vol,
\* logical_coord, logical_size and iogrid keep their values, the sweep is not
\* started and initDefaults() is not run.
C5_ConfigErrorFrame ==
  [][(Callable /\ q'.op = "create" /\ (~initialized \/ Len(nrow) # Nd)) =>
       /\ pc' = "fatal"
       /\ q'.res = "config"
       /\ UNCHANGED <<vol, subgrid_vol, logical_coord, logical_size, iogrid>>
       /\ UNCHANGED <<done, defaults>>]_vars

\* create() failed on a wrong-length size after an earlier layout was ready
C5_Witness ==
  /\ pc = "fatal"
  /\ q.op = "create" /\ q.res = "config"
  /\ initialized
  /\ Len(nrow) # Nd
  /\ vol > 0
  /\ defaults

\* ------------------------------------------------------------------ C8

\* C8 (as claimed): under the 2-checkerboard layout, for every lattice size of
\* length Nd with positive extents whose extent 0 is odd (1 included), create()
\* never declares the layout ready and fails in no other way than through the
\* error reporter: it neither returns ready nor dies of a division by zero.
C8_OddExtentFatal ==
  (layout = "CB2" /\ q.op = "create" /\ Len(nrow) = Nd /\ nrow[1] % 2 = 1) =>
    q.res \notin {"ready", "SIGFPE"}

\* ------------------------------------------------------------------ C9

C11_IOGridIgnoresArg ==
  /\ [][(Callable /\ q'.op = "setIONodeGrid") =>
          /\ Len(getIONodeGrid') = Nd
          /\ \A k \in 1..Nd : getIONodeGrid'[k] = 1
          /\ UNCHANGED <<nrow, vol, subgrid_vol, logical_coord, logical_size>>
          /\ numIONodeGrid = 1 /\ numIONodeGrid' = 1]_vars
  /\ [][(Callable /\ q'.op = "setIONodeGridDefaults") =>
          /\ Len(getIONodeGrid') = Nd
          /\ \A k \in 1..Nd : getIONodeGrid'[k] = 1]_vars

\* On a created layout a grid of length Nd with two I/O nodes per direction
\* was requested, and the grid read back is not the requested one
C11_Witness ==
  /\ pc = "ready"
  /\ q.op = "setIONodeGrid"
  /\ Len(q.arg) = Nd /\ q.arg[1] = 2
  /\ getIONodeGrid # q.arg
  /\ vol > 1

\* ----------------------------------------------------------------- C12

\* The selected codec is a bijection between [0, vol) and the valid
\* coordinates: every decoded index is a valid coordinate, every valid
\* coordinate is encoded into [0, vol) and decoded back to itself
CodecBijective ==
  /\ \A i \in 0..(vol - 1) : IsValidCoord(siteCoords(nodeNumber, i))
  /\ \A c \in CoordsOf(nrow) :
       /\ linearSiteIndex(c) \in 0..(vol - 1)
       /\ siteCoords(nodeNumber, linearSiteIndex(c)) = c

\* C12 (as claimed): under each of the three checkerboard layouts, for every
\* lattice size of length Nd with positive extents, when create() has
\* completed (every index i in [0, vol) satisfied i = linearSiteIndex(
\* siteCoords(0, i))), every siteCoords(0, i) is a valid coordinate and every
\* valid coordinate c has linearSiteIndex(c) in [0, vol) and siteCoords(0,
\* linearSiteIndex(c)) = c.
C12_SelfCheckSufficient ==
  (/\ layout \in {"CB2", "CB3D", "CB32"}
   /\ pc = "ready" /\ q.op = "create" /\ q.res = "ready") =>
    /\ \A i \in 0..(vol - 1) : SweepOK(i)
    /\ CodecBijective

\* ----------------------------------------------------------------- C13

\* The keys get() finds in the map m
LiveKeys(m) == {k \in Keys : getResult(m, k, 0)[1] = 0}

\* get() answers the same for key k on the maps m and n, whatever the caller's
\* variable holds
SameAnswer(m, n, k) ==
  \A v \in Values : getResult(m, k, v) = getResult(n, k, v)

\* C13: MapObjectMemory is a finite map from keys to values.  A new map has no
\* live key.  insert(k, v) makes get(k) return 0 with v, changes the answer
\* for no other key, and changes size() only when k was not live (by one).
\* erase(k) makes get(k) return 1, changes no other key, and changes nothing
\* at all when k was not live.  clear() leaves no live key.  get, exist and
\* size change nothing; a get that returns 1 leaves the caller's val as it
\* was.  So get(k) returns the value of the latest insert(k, .) not followed
\* by erase(k) or clear(), exist(k) holds exactly when get(k) returns 0, and
\* size() is the number of live keys.
C13_AbstractMap ==
  /\ LiveKeys(src_map) = {}
  /\ [](\A k \in Keys :
          existResult(src_map, k) <=> (getResult(src_map, k, 0)[1] = 0))
  /\ [](sizeResult(src_map) = Cardinality(LiveKeys(src_map)))
  /\ [][q'.op = "insert" =>
          LET k == q'.arg[1]
              v == q'.arg[2]
          IN  /\ q'.res = <<0>>
              /\ \A w \in Values : getResult(src_map', k, w) = <<0, v>>
              /\ \A j \in Keys \ {k} : SameAnswer(src_map, src_map', j)
              /\ sizeResult(src_map') =
                   IF k \in LiveKeys(src_map) THEN sizeResult(src_map)
                                              ELSE sizeResult(src_map) + 1]_vars
  /\ [][q'.op = "erase" =>
          LET k == q'.arg[1]
          IN  /\ \A w \in Values : getResult(src_map', k, w) = <<1, w>>
              /\ \A j \in Keys \ {k} : SameAnswer(src_map, src_map', j)
              /\ k \notin LiveKeys(src_map) => src_map' = src_map]_vars
  /\ [][q'.op = "clear" =>
          LiveKeys(src_map') = {} /\ sizeResult(src_map') = 0]_vars
  /\ [][q'.op \in {"get", "exist", "size"} => src_map' = src_map]_vars
  /\ [][q'.op = "get" =>
          /\ q'.res = getResult(src_map', q'.arg[1], q'.arg[2])
          /\ q'.res[1] \in {0, 1}
          /\ q'.res[1] = 1 <=> q'.arg[1] \notin LiveKeys(src_map)
          /\ q'.res[1] = 1 => q'.res[2] = q'.arg[2]]_vars
  /\ [][q'.op = "exist" =>
          (q'.res[1] <=> q'.arg[1] \in LiveKeys(src_map))]_vars
  /\ [][q'.op = "size" =>
          q'.res[1] = Cardinality(LiveKeys(src_map))]_vars

\* With two keys live, get() found a key and replaced the caller's value
C13_Witness ==
  /\ q.op = "get"
  /\ q.res[1] = 0
  /\ q.res[2] # q.arg[2]
  /\ Cardinality(LiveKeys(src_map)) = 2
  /\ \E k \in Keys : ~existResult(src_map, k)

=============================================================================
